---- MODULE Spec2Model ----
(***************************************************************************)
(* The Snake simulation engine of games.debem.dev, in its two variants:    *)
(*                                                                         *)
(*   "snake"  GameModel of src/snake/main.go: a direction key is filtered  *)
(*            against the current direction when it is enqueued, and a     *)
(*            qualifying tick pops at most one queued direction and        *)
(*            applies it as it is;                                         *)
(*   "game"   Model of src/unnamed/part_000 (package game): a direction    *)
(*            key is filtered against lastDir when it is enqueued, and a   *)
(*            qualifying tick pops queued directions until one is neither  *)
(*            the current direction nor its opposite.                      *)
(*                                                                         *)
(* One state holds the game fields of one session; variant says which of   *)
(* the two programs runs it.  Every action is one case of Update.          *)
(***************************************************************************)
EXTENDS Integers, Sequences, FiniteSets, TLC

VARIABLES
    variant,    \* "snake" (src/snake/main.go) or "game" (src/unnamed/part_000)
    tickCount,  \* ticks since the last snake move
    moveSpeed,  \* ticks per snake move
    snake,      \* sequence of Position, head first
    direction,  \* direction in effect
    dirChan,    \* buffered channel of pending directions, oldest first
    lastDir,    \* Model.lastDir ("game" only; stays 0 in "snake")
    food,       \* Position
    score,
    gameOver,
    pause,
    pending,    \* tick commands scheduled by Init/Update and not yet delivered
    keys,       \* history: direction keys pressed since the game was (re)started
    moves,      \* history: snake moves since the game was (re)started, capped
    popped,     \* history: the directions the last message received from dirChan
    branch      \* history: the branch of Update taken by the last message

vars == <<variant, tickCount, moveSpeed, snake, direction, dirChan, lastDir,
          food, score, gameOver, pause, pending, keys, moves, popped, branch>>

(***************************************************************************)
(* Program constants.                                                      *)
(***************************************************************************)
initialSpeed == 4
up == 0
down == 1
left == 2
right == 3
bufferedDirectionChanges == 5

INITIALSPEED == 8
UP == 1
DOWN == 2
LEFT == 3
RIGHT == 4
BUFFEREDDIRECTIONCHANGES == 5

(***************************************************************************)
(* Bounds.  The board of both programs is 26 x 34; the model runs them on  *)
(* a smaller board, wide enough for the food that restart places 5 cells   *)
(* to the right of the head.  MaxScore stops a game before the eating move *)
(* that would take the score above it.  A game takes MaxKeys direction     *)
(* keys at any time and runs as long as it can; a game whose snake has not *)
(* moved yet takes up to MaxBurst keys (enough to fill the channel and     *)
(* overflow it), and a game that took more than MaxKeys keys stops after   *)
(* MaxBurstMoves moves (enough for three successive turns).                *)
(***************************************************************************)
boardWidth == 11
boardHeight == 2
MaxScore == 2
MaxKeys == 2
MaxBurst == 6
MaxBurstMoves == 3
\* The scores the speed curve is followed to, past the floor of both variants.
MaxSpeedScore == 13

BOARDWIDTH == boardWidth
BOARDHEIGHT == boardHeight

KeyAllowed == keys < MaxKeys \/ (moves = 0 /\ keys < MaxBurst)

MoveAllowed == keys <= MaxKeys \/ moves < MaxBurstMoves

CountMove == IF moves < MaxBurstMoves THEN moves + 1 ELSE moves

Position(px, py) == [x |-> px, y |-> py]

Cells == {Position(px, py) : px \in 0..(boardWidth - 1), py \in 0..(boardHeight - 1)}

\* s[:len(s)-1]
Front(s) == SubSeq(s, 1, Len(s) - 1)

(***************************************************************************)
(* src/snake/main.go                                                       *)
(***************************************************************************)
GameModel_initialSnake ==
    LET initialX == boardWidth \div 2
        initialY == boardHeight \div 2
    IN  << Position(initialX, initialY),
           Position(initialX - (1 * 1), initialY),
           Position(initialX - (2 * 1), initialY),
           Position(initialX - (3 * 1), initialY) >>

GameModel_initialFood ==
    Position((boardWidth \div 2) + 5, boardHeight \div 2)

\* make(chan int, bufferedDirectionChanges)
GameModel_makeChan == << >>

\* restartGame: every game field (the board fields are not touched).
GameModel_restartGame ==
    /\ tickCount' = 0
    /\ moveSpeed' = initialSpeed
    /\ snake' = GameModel_initialSnake
    /\ direction' = right
    /\ dirChan' = GameModel_makeChan
    /\ food' = GameModel_initialFood
    /\ score' = 0
    /\ gameOver' = FALSE
    /\ pause' = FALSE

\* Mutant: the new speed is not held at 3.
GameModel_updateSpeed_noFloor(sc) == initialSpeed - (sc \div 4)

GameModel_updateSpeed(sc) ==
    LET newSpeed == initialSpeed - (sc \div 4)
    IN  IF newSpeed < 3 THEN 3 ELSE newSpeed

\* newFoodPosition: the cells the retry loop can return, given the snake it
\* reads.  When no cell is free the loop never returns.
GameModel_newFoodPosition(s) == {c \in Cells : \A i \in 1..Len(s) : s[i] # c}

\* Mutant: up and down are swapped.
GameModel_calcNewHead_flipped(s, d) ==
    LET head == s[1]
    IN  CASE d = up    -> Position(head.x, head.y + 1)
          [] d = down  -> Position(head.x, head.y - 1)
          [] d = left  -> Position(head.x - 1, head.y)
          [] d = right -> Position(head.x + 1, head.y)
          [] OTHER     -> head

GameModel_calcNewHead(s, d) ==
    LET head == s[1]
    IN  CASE d = up    -> Position(head.x, head.y - 1)
          [] d = down  -> Position(head.x, head.y + 1)
          [] d = left  -> Position(head.x - 1, head.y)
          [] d = right -> Position(head.x + 1, head.y)
          [] OTHER     -> head

\* Mutant: the body scan is missing.
GameModel_checkCollision_noBody(pos, s) ==
    \/ pos.x < 0 \/ pos.x >= boardWidth
    \/ pos.y < 0 \/ pos.y >= boardHeight

\* Mutant: the right and bottom walls are one cell too far.
GameModel_checkCollision_offByOne(pos, s) ==
    \/ pos.x < 0 \/ pos.x > boardWidth
    \/ pos.y < 0 \/ pos.y > boardHeight
    \/ \E i \in 2..Len(s) : pos = s[i]

GameModel_checkCollision(pos, s) ==
    \/ pos.x < 0 \/ pos.x >= boardWidth
    \/ pos.y < 0 \/ pos.y >= boardHeight
    \/ \E i \in 2..Len(s) : pos = s[i]

\* Mutant: the direction is read from the channel and left in it.
GameModel_recv_keeps(q, d) ==
    IF q # << >> THEN [direction |-> Head(q), dirChan |-> q, popped |-> << >>]
                 ELSE [direction |-> d, dirChan |-> q, popped |-> << >>]

\* select { case newDir := <-m.dirChan: m.direction = newDir; default: }
\* the direction after the select, and what is left in the channel.
GameModel_recv(q, d) ==
    IF q # << >> THEN [direction |-> Head(q), dirChan |-> Tail(q), popped |-> <<Head(q)>>]
                 ELSE [direction |-> d, dirChan |-> q, popped |-> << >>]

\* handleFood: the snake after the eating move.
GameModel_grow(newHead, s) == <<newHead>> \o s

\* the snake after a move that does not eat.
GameModel_slide(newHead, s) == <<newHead>> \o Front(s)

\* Mutant: the command delivers nothing, as a returned nil does.
GameModel_tick_none == << >>

\* tick: tea.Every delivers one tickMsg, at the next multiple of
\* tickDuration.  The messages the command will deliver.
GameModel_tick == <<"tickMsg">>

\* handleTick with another test of the tick counter, for the mutants below.
GameModel_handleTick_when(due) ==
    IF due
    THEN LET r       == GameModel_recv(dirChan, direction)
             newHead == GameModel_calcNewHead(snake, r.direction)
         IN  /\ MoveAllowed
             /\ moves' = CountMove
             /\ tickCount' = 0
             /\ direction' = r.direction
             /\ dirChan' = r.dirChan
             /\ popped' = r.popped
             /\ IF GameModel_checkCollision(newHead, snake)
                THEN /\ gameOver' = TRUE
                     /\ branch' = "collided"
                     /\ UNCHANGED <<snake, food, score, moveSpeed>>
                ELSE IF newHead = food
                THEN /\ score < MaxScore
                     /\ score' = score + 1
                     /\ moveSpeed' = GameModel_updateSpeed(score + 1)
                     /\ food' \in GameModel_newFoodPosition(snake)
                     /\ snake' = GameModel_grow(newHead, snake)
                     /\ branch' = "ate"
                     /\ UNCHANGED gameOver
                ELSE /\ snake' = GameModel_slide(newHead, snake)
                     /\ branch' = "moved"
                     /\ UNCHANGED <<food, score, moveSpeed, gameOver>>
    ELSE /\ tickCount' = tickCount + 1
         /\ branch' = "wait"
         /\ popped' = << >>
         /\ UNCHANGED <<snake, direction, dirChan, food, score, moveSpeed,
                        gameOver, moves>>

\* Mutant: the move is made one tick early.
GameModel_handleTick_early == GameModel_handleTick_when(tickCount + 2 >= moveSpeed)

\* Mutant: the move is made one tick late.
GameModel_handleTick_late == GameModel_handleTick_when(tickCount + 1 > moveSpeed)

GameModel_handleTick ==
    IF tickCount + 1 >= moveSpeed
    THEN LET r       == GameModel_recv(dirChan, direction)
             newHead == GameModel_calcNewHead(snake, r.direction)
         IN  /\ MoveAllowed
             /\ moves' = CountMove
             /\ tickCount' = 0
             /\ direction' = r.direction
             /\ dirChan' = r.dirChan
             /\ popped' = r.popped
             /\ IF GameModel_checkCollision(newHead, snake)
                THEN /\ gameOver' = TRUE
                     /\ branch' = "collided"
                     /\ UNCHANGED <<snake, food, score, moveSpeed>>
                ELSE IF newHead = food
                THEN \* handleFood
                     /\ score < MaxScore
                     /\ score' = score + 1
                     /\ moveSpeed' = GameModel_updateSpeed(score + 1)
                     /\ food' \in GameModel_newFoodPosition(snake)
                     /\ snake' = GameModel_grow(newHead, snake)
                     /\ branch' = "ate"
                     /\ UNCHANGED gameOver
                ELSE /\ snake' = GameModel_slide(newHead, snake)
                     /\ branch' = "moved"
                     /\ UNCHANGED <<food, score, moveSpeed, gameOver>>
    ELSE /\ tickCount' = tickCount + 1
         /\ branch' = "wait"
         /\ popped' = << >>
         /\ UNCHANGED <<snake, direction, dirChan, food, score, moveSpeed,
                        gameOver, moves>>

\* Mutant: the tick handler tests gameOver only, so a paused game advances.
GameModel_Tick_ignoresPause ==
    /\ variant = "snake"
    /\ pending > 0
    /\ pending' = (pending - 1) + Len(GameModel_tick)
    /\ IF gameOver
       THEN /\ branch' = "idle"
            /\ popped' = << >>
            /\ UNCHANGED <<tickCount, moveSpeed, snake, direction, dirChan,
                           food, score, gameOver, moves>>
       ELSE GameModel_handleTick
    /\ UNCHANGED <<variant, lastDir, pause, keys>>

\* Update, case tickMsg.  Every path returns m.tick().
GameModel_Tick ==
    /\ variant = "snake"
    /\ pending > 0
    /\ pending' = (pending - 1) + Len(GameModel_tick)
    /\ IF pause \/ gameOver
       THEN /\ branch' = "idle"
            /\ popped' = << >>
            /\ UNCHANGED <<tickCount, moveSpeed, snake, direction, dirChan,
                           food, score, gameOver, moves>>
       ELSE GameModel_handleTick
    /\ UNCHANGED <<variant, lastDir, pause, keys>>

GameModel_KeyDirs == {up, down, left, right}

\* The guard of a direction key: "w" is  m.direction != down && m.direction != up.
GameModel_accepts(d, cur) ==
    CASE d = up    -> cur # down /\ cur # up
      [] d = down  -> cur # up /\ cur # down
      [] d = left  -> cur # right /\ cur # left
      [] d = right -> cur # left /\ cur # right

\* select { case m.dirChan <- d: ; default: }
GameModel_hasRoom(q) == Len(q) < bufferedDirectionChanges

\* Update, case tea.KeyMsg, a direction key.
GameModel_Key(d) ==
    /\ variant = "snake"
    /\ KeyAllowed
    /\ keys' = keys + 1
    /\ popped' = << >>
    /\ IF GameModel_accepts(d, direction)
       THEN IF GameModel_hasRoom(dirChan)
            THEN /\ dirChan' = Append(dirChan, d)
                 /\ branch' = "enqueued"
            ELSE /\ dirChan' = dirChan
                 /\ branch' = "dropped"
       ELSE /\ dirChan' = dirChan
            /\ branch' = "rejected"
    /\ UNCHANGED <<variant, tickCount, moveSpeed, snake, direction, lastDir,
                   food, score, gameOver, pause, pending, moves>>

\* Mutant: the key sets the flag instead of flipping it.
GameModel_Pause_setsOnly ==
    /\ variant = "snake"
    /\ pause' = TRUE
    /\ branch' = "pause"
    /\ popped' = << >>
    /\ UNCHANGED <<variant, tickCount, moveSpeed, snake, direction, dirChan,
                   lastDir, food, score, gameOver, pending, keys, moves>>

\* Update, case " ".
GameModel_Pause ==
    /\ variant = "snake"
    /\ pause' = ~pause
    /\ branch' = "pause"
    /\ popped' = << >>
    /\ UNCHANGED <<variant, tickCount, moveSpeed, snake, direction, dirChan,
                   lastDir, food, score, gameOver, pending, keys, moves>>

\* Update, case tea.WindowSizeMsg: height and width are stored for View,
\* and the handler returns no command.
GameModel_Resize ==
    /\ variant = "snake"
    /\ branch' = "resize"
    /\ popped' = << >>
    /\ UNCHANGED <<variant, tickCount, moveSpeed, snake, direction, dirChan,
                   lastDir, food, score, gameOver, pause, pending, keys, moves>>

\* Update, case "r".
GameModel_Restart ==
    /\ variant = "snake"
    /\ GameModel_restartGame
    /\ branch' = "restart"
    /\ popped' = << >>
    /\ keys' = 0
    /\ moves' = 0
    /\ UNCHANGED <<variant, lastDir, pending>>

\* teaHandler builds the model and restarts it; Init schedules the first tick.
GameModel_Init ==
    /\ variant = "snake"
    /\ tickCount = 0
    /\ moveSpeed = initialSpeed
    /\ snake = GameModel_initialSnake
    /\ direction = right
    /\ dirChan = GameModel_makeChan
    /\ lastDir = 0
    /\ food = GameModel_initialFood
    /\ score = 0
    /\ gameOver = FALSE
    /\ pause = FALSE
    /\ pending = Len(GameModel_tick)
    /\ keys = 0
    /\ moves = 0
    /\ popped = << >>
    /\ branch = "init"

(***************************************************************************)
(* src/unnamed/part_000 (package game)                                     *)
(***************************************************************************)
Model_initialSnake ==
    LET initialX == BOARDWIDTH \div 2
        initialY == BOARDHEIGHT \div 2
    IN  << Position(initialX, initialY),
           Position(initialX - 1, initialY),
           Position(initialX - 2, initialY),
           Position(initialX - 3, initialY) >>

Model_initialFood ==
    Position((BOARDWIDTH \div 2) + 5, BOARDHEIGHT \div 2)

\* make(chan int, BUFFEREDDIRECTIONCHANGES)
Model_makeChan == << >>

\* Mutant: restart keeps the channel it has.
Model_RestartGame_keepsChan ==
    /\ tickCount' = 0
    /\ moveSpeed' = INITIALSPEED
    /\ snake' = Model_initialSnake
    /\ direction' = RIGHT
    /\ dirChan' = dirChan
    /\ food' = Model_initialFood
    /\ score' = 0
    /\ gameOver' = FALSE
    /\ pause' = FALSE

\* RestartGame: lastDir is not among the fields it sets.
Model_RestartGame ==
    /\ tickCount' = 0
    /\ moveSpeed' = INITIALSPEED
    /\ snake' = Model_initialSnake
    /\ direction' = RIGHT
    /\ dirChan' = Model_makeChan
    /\ food' = Model_initialFood
    /\ score' = 0
    /\ gameOver' = FALSE
    /\ pause' = FALSE

\* tick: tea.Every delivers one tickMsg.
Model_tick == <<"tickMsg">>

Model_updateSpeed(sc) ==
    LET newSpeed == INITIALSPEED - (sc \div 2)
    IN  IF newSpeed < 3 THEN 3 ELSE newSpeed

Model_newFoodPosition(s) == {c \in Cells : \A i \in 1..Len(s) : s[i] # c}

Model_calcNewHead(s, d) ==
    LET head == s[1]
    IN  CASE d = UP    -> Position(head.x, head.y - 1)
          [] d = DOWN  -> Position(head.x, head.y + 1)
          [] d = LEFT  -> Position(head.x - 1, head.y)
          [] d = RIGHT -> Position(head.x + 1, head.y)
          [] OTHER     -> head

\* Mutant: the right and bottom walls are tested with > in place of >=.
Model_checkCollision_pastWall(pos, s) ==
    \/ pos.x < 0 \/ pos.x > BOARDWIDTH
    \/ pos.y < 0 \/ pos.y > BOARDHEIGHT
    \/ \E i \in 2..Len(s) : pos = s[i]

\* Mutant: the cell of the tail, which a sliding move vacates, is not
\* counted as body.
Model_checkCollision_sparesTail(pos, s) ==
    \/ pos.x < 0 \/ pos.x >= BOARDWIDTH
    \/ pos.y < 0 \/ pos.y >= BOARDHEIGHT
    \/ \E i \in 2..(Len(s) - 1) : pos = s[i]

Model_checkCollision(pos, s) ==
    \/ pos.x < 0 \/ pos.x >= BOARDWIDTH
    \/ pos.y < 0 \/ pos.y >= BOARDHEIGHT
    \/ \E i \in 2..Len(s) : pos = s[i]

isOppositeDirection(a, b) ==
    \/ (a = UP /\ b = DOWN)
    \/ (a = DOWN /\ b = UP)
    \/ (a = LEFT /\ b = RIGHT)
    \/ (a = RIGHT /\ b = LEFT)

\* Mutant: only a repeated direction is discarded.
Model_validDir_repeatOnly(newDir, cur) == newDir # cur

\* The test handleTick makes on a received direction.
Model_validDir(newDir, cur) == ~isOppositeDirection(newDir, cur) /\ newDir # cur

\* Mutant: the loop stops at the first direction it receives.
Model_bufferLoop_popOne(q, cur) ==
    IF q = << >>
    THEN [lastValidDir |-> -1, dirChan |-> q, popped |-> << >>]
    ELSE [lastValidDir |-> IF Model_validDir(Head(q), cur) THEN Head(q) ELSE -1,
          dirChan |-> Tail(q), popped |-> <<Head(q)>>]

\* bufferLoop: receive until a direction passes the test (lastValidDir) or
\* the channel is empty (lastValidDir stays -1).
RECURSIVE Model_bufferLoop(_, _)
Model_bufferLoop(q, cur) ==
    IF q = << >>
    THEN [lastValidDir |-> -1, dirChan |-> q, popped |-> << >>]
    ELSE IF Model_validDir(Head(q), cur)
         THEN [lastValidDir |-> Head(q), dirChan |-> Tail(q), popped |-> <<Head(q)>>]
         ELSE LET r == Model_bufferLoop(Tail(q), cur)
              IN  [r EXCEPT !.popped = <<Head(q)>> \o @]

Model_grow(newHead, s) == <<newHead>> \o s

Model_slide(newHead, s) == <<newHead>> \o Front(s)

Model_handleTick ==
    IF tickCount + 1 >= moveSpeed
    THEN LET r       == Model_bufferLoop(dirChan, direction)
             newDir  == IF r.lastValidDir >= 0 THEN r.lastValidDir ELSE direction
             newHead == Model_calcNewHead(snake, newDir)
         IN  /\ MoveAllowed
             /\ moves' = CountMove
             /\ tickCount' = 0
             /\ dirChan' = r.dirChan
             /\ popped' = r.popped
             /\ direction' = newDir
             /\ lastDir' = IF r.lastValidDir >= 0 THEN r.lastValidDir ELSE lastDir
             /\ IF Model_checkCollision(newHead, snake)
                THEN /\ gameOver' = TRUE
                     /\ branch' = "collided"
                     /\ UNCHANGED <<snake, food, score, moveSpeed>>
                ELSE IF newHead = food
                THEN \* handleFood
                     /\ score < MaxScore
                     /\ score' = score + 1
                     /\ moveSpeed' = Model_updateSpeed(score + 1)
                     /\ food' \in Model_newFoodPosition(snake)
                     /\ snake' = Model_grow(newHead, snake)
                     /\ branch' = "ate"
                     /\ UNCHANGED gameOver
                ELSE /\ snake' = Model_slide(newHead, snake)
                     /\ branch' = "moved"
                     /\ UNCHANGED <<food, score, moveSpeed, gameOver>>
    ELSE /\ tickCount' = tickCount + 1
         /\ branch' = "wait"
         /\ popped' = << >>
         /\ UNCHANGED <<snake, direction, dirChan, lastDir, food, score,
                        moveSpeed, gameOver, moves>>

\* Update, case tickMsg.  Every path returns m.tick().
Model_Tick ==
    /\ variant = "game"
    /\ pending > 0
    /\ pending' = (pending - 1) + Len(Model_tick)
    /\ IF pause \/ gameOver
       THEN /\ branch' = "idle"
            /\ popped' = << >>
            /\ UNCHANGED <<tickCount, moveSpeed, snake, direction, dirChan,
                           lastDir, food, score, gameOver, moves>>
       ELSE Model_handleTick
    /\ UNCHANGED <<variant, pause, keys>>

Model_KeyDirs == {UP, DOWN, LEFT, RIGHT}

\* The early rejection of a direction key: if m.lastDir == UP { break }.
Model_accepts(d, last) == last # d

\* Mutant: the channel takes one direction more.
Model_hasRoom_offByOne(q) == Len(q) <= BUFFEREDDIRECTIONCHANGES

Model_hasRoom(q) == Len(q) < BUFFEREDDIRECTIONCHANGES

\* Update, case tea.KeyMsg, a direction key.
Model_Key(d) ==
    /\ variant = "game"
    /\ KeyAllowed
    /\ keys' = keys + 1
    /\ popped' = << >>
    /\ IF Model_accepts(d, lastDir)
       THEN IF Model_hasRoom(dirChan)
            THEN /\ dirChan' = Append(dirChan, d)
                 /\ lastDir' = d
                 /\ branch' = "enqueued"
            ELSE /\ branch' = "dropped"
                 /\ UNCHANGED <<dirChan, lastDir>>
       ELSE /\ branch' = "rejected"
            /\ UNCHANGED <<dirChan, lastDir>>
    /\ UNCHANGED <<variant, tickCount, moveSpeed, snake, direction, food,
                   score, gameOver, pause, pending, moves>>

\* Update, case " ".
Model_Pause ==
    /\ variant = "game"
    /\ pause' = ~pause
    /\ branch' = "pause"
    /\ popped' = << >>
    /\ UNCHANGED <<variant, tickCount, moveSpeed, snake, direction, dirChan,
                   lastDir, food, score, gameOver, pending, keys, moves>>

\* Update, case tea.WindowSizeMsg.
Model_Resize ==
    /\ variant = "game"
    /\ branch' = "resize"
    /\ popped' = << >>
    /\ UNCHANGED <<variant, tickCount, moveSpeed, snake, direction, dirChan,
                   lastDir, food, score, gameOver, pause, pending, keys, moves>>

\* Update, case "r".
Model_Restart ==
    /\ variant = "game"
    /\ Model_RestartGame
    /\ branch' = "restart"
    /\ popped' = << >>
    /\ keys' = 0
    /\ moves' = 0
    /\ UNCHANGED <<variant, lastDir, pending>>

\* NewModel builds the model (lastDir is the zero value) and restarts it;
\* Init schedules the first tick.
Model_Init ==
    /\ variant = "game"
    /\ tickCount = 0
    /\ moveSpeed = INITIALSPEED
    /\ snake = Model_initialSnake
    /\ direction = RIGHT
    /\ dirChan = Model_makeChan
    /\ lastDir = 0
    /\ food = Model_initialFood
    /\ score = 0
    /\ gameOver = FALSE
    /\ pause = FALSE
    /\ pending = Len(Model_tick)
    /\ keys = 0
    /\ moves = 0
    /\ popped = << >>
    /\ branch = "init"

(***************************************************************************)
(* The two programs.                                                       *)
(***************************************************************************)
Init == GameModel_Init \/ Model_Init

Next ==
    \/ GameModel_Tick
    \/ \E d \in GameModel_KeyDirs : GameModel_Key(d)
    \/ GameModel_Pause
    \/ GameModel_Resize
    \/ GameModel_Restart
    \/ Model_Tick
    \/ \E d \in Model_KeyDirs : Model_Key(d)
    \/ Model_Pause
    \/ Model_Resize
    \/ Model_Restart

Spec == Init /\ [][Next]_vars

(***************************************************************************)
(* The speed curve.  Score, move-speed and tick counter over a whole game, *)
(* with the board left out: what a move finds in the cell ahead (nothing,  *)
(* the food, a wall or the body) is not determined, and snake, food,       *)
(* direction and queue are not followed.                                   *)
(***************************************************************************)
GameModel_handleTick_anyBoard ==
    IF tickCount + 1 >= moveSpeed
    THEN /\ tickCount' = 0
         /\ \/ /\ gameOver' = TRUE
               /\ branch' = "collided"
               /\ UNCHANGED <<score, moveSpeed>>
            \/ /\ score < MaxSpeedScore
               /\ score' = score + 1
               /\ moveSpeed' = GameModel_updateSpeed(score + 1)
               /\ branch' = "ate"
               /\ UNCHANGED gameOver
            \/ /\ branch' = "moved"
               /\ UNCHANGED <<score, moveSpeed, gameOver>>
    ELSE /\ tickCount' = tickCount + 1
         /\ branch' = "wait"
         /\ UNCHANGED <<score, moveSpeed, gameOver>>

GameModel_Tick_anyBoard ==
    /\ variant = "snake"
    /\ pending > 0
    /\ pending' = (pending - 1) + Len(GameModel_tick)
    /\ IF pause \/ gameOver
       THEN /\ branch' = "idle"
            /\ UNCHANGED <<tickCount, moveSpeed, score, gameOver>>
       ELSE GameModel_handleTick_anyBoard
    /\ UNCHANGED <<variant, snake, direction, dirChan, lastDir, food, pause,
                   keys, moves, popped>>

Model_handleTick_anyBoard ==
    IF tickCount + 1 >= moveSpeed
    THEN /\ tickCount' = 0
         /\ \/ /\ gameOver' = TRUE
               /\ branch' = "collided"
               /\ UNCHANGED <<score, moveSpeed>>
            \/ /\ score < MaxSpeedScore
               /\ score' = score + 1
               /\ moveSpeed' = Model_updateSpeed(score + 1)
               /\ branch' = "ate"
               /\ UNCHANGED gameOver
            \/ /\ branch' = "moved"
               /\ UNCHANGED <<score, moveSpeed, gameOver>>
    ELSE /\ tickCount' = tickCount + 1
         /\ branch' = "wait"
         /\ UNCHANGED <<score, moveSpeed, gameOver>>

Model_Tick_anyBoard ==
    /\ variant = "game"
    /\ pending > 0
    /\ pending' = (pending - 1) + Len(Model_tick)
    /\ IF pause \/ gameOver
       THEN /\ branch' = "idle"
            /\ UNCHANGED <<tickCount, moveSpeed, score, gameOver>>
       ELSE Model_handleTick_anyBoard
    /\ UNCHANGED <<variant, snake, direction, dirChan, lastDir, food, pause,
                   keys, moves, popped>>

SpeedNext ==
    \/ GameModel_Tick_anyBoard
    \/ GameModel_Pause
    \/ GameModel_Restart
    \/ Model_Tick_anyBoard
    \/ Model_Pause
    \/ Model_Restart

SpeedSpec == Init /\ [][SpeedNext]_vars

(***************************************************************************)
(* Vocabulary of the properties.  These are stated from the game's rules,  *)
(* not in terms of the operators above.                                    *)
(***************************************************************************)
TickBranches == {"idle", "wait", "moved", "ate", "collided"}

MoveBranches == {"moved", "ate", "collided"}

KeyBranches == {"enqueued", "dropped", "rejected"}

\* A tick delivered now makes the snake move.
Qualifying == ~pause /\ ~gameOver /\ tickCount + 1 >= moveSpeed

\* The unit offset of a direction: UP y-1, DOWN y+1, LEFT x-1, RIGHT x+1.
Delta(v, d) ==
    IF v = "snake"
    THEN CASE d = 0 -> <<0, -1>> [] d = 1 -> <<0, 1>>
           [] d = 2 -> <<-1, 0>> [] d = 3 -> <<1, 0>>
    ELSE CASE d = 1 -> <<0, -1>> [] d = 2 -> <<0, 1>>
           [] d = 3 -> <<-1, 0>> [] d = 4 -> <<1, 0>>

\* The cell one step from cell c in direction d.
Ahead(v, c, d) == [x |-> c.x + Delta(v, d)[1], y |-> c.y + Delta(v, d)[2]]

\* d is the exact opposite of e.
Reverse(v, d, e) == Delta(v, d)[1] + Delta(v, e)[1] = 0 /\ Delta(v, d)[2] + Delta(v, e)[2] = 0

InBoard(c) == c.x >= 0 /\ c.x < boardWidth /\ c.y >= 0 /\ c.y < boardHeight

OnSnake(c, s) == \E i \in 1..Len(s) : s[i] = c

Abs(n) == IF n < 0 THEN -n ELSE n

\* Consecutive cells differ by one unit on exactly one axis.
Contiguous(s) ==
    \A i \in 1..(Len(s) - 1) : Abs(s[i].x - s[i + 1].x) + Abs(s[i].y - s[i + 1].y) = 1

\* The status of the session as a player sees it.
Status == IF gameOver THEN "GameOver" ELSE IF pause THEN "Paused" ELSE "Running"

(***************************************************************************)
(* C1.  In both variants, in every reachable state, no two cells of the    *)
(* snake are equal: the snake never overlaps itself, after eating moves    *)
(* and in GameOver states too.                                             *)
(***************************************************************************)
C1_NoOverlap ==
    \A i, j \in 1..Len(snake) : i # j => snake[i] # snake[j]

\* A game that ended because the cell ahead, inside the board, was a cell of
\* the snake.
C1_Witness ==
    /\ branch = "collided"
    /\ InBoard(Ahead(variant, snake[1], direction))
    /\ OnSnake(Ahead(variant, snake[1], direction), snake)

(***************************************************************************)
(* C2.  In both variants, the food is never on a cell of the snake: after  *)
(* the placement done by restart and after the re-roll of an eating move   *)
(* the food differs from every snake cell, the new head included.          *)
(***************************************************************************)
C2_FoodOffSnake == ~OnSnake(food, snake)

(***************************************************************************)
(* C3.  In the drain-time-filtering variant, within one game, the          *)
(* direction in effect changes only on a qualifying tick, and the          *)
(* direction of a move is never the exact opposite of the direction of the *)
(* move before it.                                                         *)
(***************************************************************************)
C3_NoReversal ==
    [][ (variant = "game" /\ branch' # "restart") =>
          /\ (direction' # direction => Qualifying /\ branch' \in MoveBranches)
          /\ ~Reverse("game", direction', direction) ]_vars

\* A qualifying tick received a reversal and a repetition, discarded both,
\* and turned with the direction queued behind them.
C3_Witness ==
    /\ variant = "game"
    /\ branch = "moved"
    /\ Len(popped) = 3
    /\ Reverse("game", popped[1], direction) \/ Reverse("game", popped[2], direction)
    /\ popped[3] = direction

(***************************************************************************)
(* C4.  In the enqueue-time-filtering variant, a queued request that is    *)
(* the exact opposite of the request queued before it never becomes the    *)
(* direction in effect: the direction in effect never points from the head *)
(* to the neck, so the snake never reverses onto its own neck.             *)
(***************************************************************************)
C4_NeverOntoNeck ==
    variant = "snake" => Ahead("snake", snake[1], direction) # snake[2]

(***************************************************************************)
(* C5.  In both variants, a qualifying tick whose new head is outside the  *)
(* board ends the game; while the game is over a tick leaves snake, food,  *)
(* score, direction, tick counter and move-speed unchanged; and only       *)
(* restart leaves GameOver.                                                *)
(***************************************************************************)
C5_GameOverAbsorbing ==
    [][ /\ (/\ Qualifying
            /\ branch' \in TickBranches
            /\ ~InBoard(Ahead(variant, snake[1], direction'))) => gameOver'
        /\ (gameOver /\ branch' \in TickBranches) =>
               UNCHANGED <<snake, food, score, direction, tickCount, moveSpeed>>
        /\ (gameOver /\ branch' # "restart") => gameOver' ]_vars

\* A tick delivered after the snake ran into a wall.
C5_Witness ==
    /\ gameOver
    /\ branch = "idle"
    /\ ~pause
    /\ ~InBoard(Ahead(variant, snake[1], direction))

(***************************************************************************)
(* C6.  In both variants, a qualifying tick whose new head equals the food *)
(* cell increases score by exactly 1, prepends the new head to the snake   *)
(* and keeps every other cell, and leaves a move-speed that is at most the *)
(* move-speed before the tick and at least 3.                              *)
(***************************************************************************)
C6_Eating ==
    [][ (/\ Qualifying
         /\ branch' \in TickBranches
         /\ Ahead(variant, snake[1], direction') = food) =>
            /\ score' = score + 1
            /\ snake' = <<food>> \o snake
            /\ moveSpeed' <= moveSpeed
            /\ moveSpeed' >= 3 ]_vars

\* The same for the ticks that reach handleFood: the food cell is ahead and
\* is not a cell of the snake's body.
C6_EatingMove ==
    [][ (/\ Qualifying
         /\ branch' \in TickBranches
         /\ Ahead(variant, snake[1], direction') = food
         /\ ~OnSnake(food, snake)) =>
            /\ score' = score + 1
            /\ snake' = <<food>> \o snake
            /\ moveSpeed' <= moveSpeed
            /\ moveSpeed' >= 3 ]_vars

(***************************************************************************)
(* C7.  In both variants, restart from any state yields score 0, tick      *)
(* counter 0, the initial move-speed, direction RIGHT, the 4-cell          *)
(* horizontal snake with its head at the board centre and its body to the  *)
(* left, food 5 cells to the right of the head, a running game and an      *)
(* empty input queue.                                                      *)
(***************************************************************************)
C7_Restart ==
    branch = "restart" =>
        /\ score = 0
        /\ tickCount = 0
        /\ moveSpeed = (IF variant = "snake" THEN initialSpeed ELSE INITIALSPEED)
        /\ direction = (IF variant = "snake" THEN right ELSE RIGHT)
        /\ Len(snake) = 4
        /\ \A i \in 1..4 :
              snake[i] = [x |-> (boardWidth \div 2) - (i - 1), y |-> boardHeight \div 2]
        /\ food = [x |-> snake[1].x + 5, y |-> snake[1].y]
        /\ ~gameOver
        /\ ~pause
        /\ dirChan = << >>

\* A restart of a session in which directions had been submitted.
C7_Witness == branch = "restart" /\ variant = "game" /\ lastDir # 0

(***************************************************************************)
(* C8.  In both variants, the input queue never holds more than 5          *)
(* directions, and a direction key submitted while it holds 5 leaves the   *)
(* queue and every other session field, lastDir included, unchanged.       *)
(***************************************************************************)
C8_BoundedQueue ==
    [][ /\ Len(dirChan') <= 5
        /\ (branch' \in KeyBranches /\ Len(dirChan) = 5) =>
               UNCHANGED <<variant, tickCount, moveSpeed, snake, direction, dirChan,
                           lastDir, food, score, gameOver, pause, pending>> ]_vars

\* A key that found the queue full and was dropped.
C8_Witness == branch = "dropped" /\ Len(dirChan) = 5

(***************************************************************************)
(* C9.  In the drain-time-filtering variant, a qualifying tick pops the    *)
(* queue in FIFO order up to and including the first direction that is     *)
(* neither the current direction nor its opposite, which becomes the       *)
(* direction in effect, and leaves the entries behind it queued in order;  *)
(* with no such entry it empties the queue and keeps the direction.  No    *)
(* other tick pops anything.                                               *)
(***************************************************************************)
C9_ValidAt(i) == dirChan[i] # direction /\ ~Reverse("game", dirChan[i], direction)

C9_Drain ==
    [][ (variant = "game" /\ branch' \in TickBranches) =>
          IF Qualifying
          THEN IF \E i \in 1..Len(dirChan) : C9_ValidAt(i)
               THEN LET k == CHOOSE i \in 1..Len(dirChan) :
                                 C9_ValidAt(i) /\ \A j \in 1..(i - 1) : ~C9_ValidAt(j)
                    IN  /\ direction' = dirChan[k]
                        /\ dirChan' = SubSeq(dirChan, k + 1, Len(dirChan))
               ELSE /\ direction' = direction
                    /\ dirChan' = << >>
          ELSE dirChan' = dirChan ]_vars

\* A qualifying tick discarded at least one direction, applied the next,
\* and left something queued behind it.
C9_Witness ==
    /\ variant = "game"
    /\ branch \in MoveBranches
    /\ Len(popped) >= 2
    /\ popped[Len(popped)] = direction
    /\ dirChan # << >>

(***************************************************************************)
(* C10.  In both variants, after a qualifying tick that does not end the   *)
(* game the head is the previous head moved one unit in the direction in   *)
(* effect; a move that does not eat yields the new head followed by the    *)
(* old snake without its last cell; consecutive cells stay adjacent.       *)
(***************************************************************************)
C10_Move ==
    [][ /\ (Qualifying /\ branch' \in TickBranches /\ ~gameOver') =>
              /\ snake'[1] = Ahead(variant, snake[1], direction')
              /\ (snake'[1] # food =>
                     snake' = <<snake'[1]>> \o SubSeq(snake, 1, Len(snake) - 1))
        /\ Contiguous(snake') ]_vars

\* A grown snake that has just slid around a corner.
C10_Witness ==
    /\ branch = "moved"
    /\ score > 0
    /\ snake[1].y # snake[Len(snake)].y

(***************************************************************************)
(* C11.  In both variants, a tick received while the game is paused or     *)
(* over changes no field of the session: tick counter, snake, direction,   *)
(* food, score, move-speed, input queue, lastDir and both status flags     *)
(* stay as they were, so no queued direction is consumed and a paused      *)
(* snake does not advance, however many such ticks arrive.                 *)
(***************************************************************************)
C11_IdleTick ==
    [][ ((pause \/ gameOver) /\ branch' \in TickBranches) =>
            UNCHANGED <<tickCount, snake, direction, food, score, moveSpeed,
                        dirChan, lastDir, gameOver, pause>> ]_vars

\* A tick delivered to a paused game, short of its move by one tick, with a
\* direction waiting in the queue.
C11_Witness ==
    /\ branch = "idle"
    /\ pause
    /\ ~gameOver
    /\ tickCount + 1 >= moveSpeed
    /\ dirChan # << >>

(***************************************************************************)
(* C12.  In both variants, the pause toggle flips the session between      *)
(* Paused and Running and has no effect while the game is over: toggling   *)
(* pause in a GameOver state leaves every field of the session, the pause  *)
(* flag included, unchanged.                                               *)
(***************************************************************************)
C12_PauseNoEffectInGameOver ==
    [][ /\ (branch' = "pause" /\ Status = "Running") => Status' = "Paused"
        /\ (branch' = "pause" /\ Status = "Paused") => Status' = "Running"
        /\ (branch' = "pause" /\ gameOver) =>
               UNCHANGED <<tickCount, snake, direction, food, score, moveSpeed,
                           dirChan, lastDir, gameOver, pause>> ]_vars

\* C12 as amended: the toggle flips the pause flag in every state and
\* touches nothing else; the status goes Running to Paused and back and
\* stays GameOver; leaving GameOver, by restart, clears the flag.
C12_PauseToggle ==
    [][ /\ branch' = "pause" =>
              /\ pause' = ~pause
              /\ UNCHANGED <<tickCount, snake, direction, food, score, moveSpeed,
                             dirChan, lastDir, gameOver>>
              /\ Status' = (CASE Status = "Running"  -> "Paused"
                              [] Status = "Paused"   -> "Running"
                              [] Status = "GameOver" -> "GameOver")
        /\ (gameOver /\ ~gameOver') => ~pause' ]_vars

\* A pause key pressed after the game ended, leaving the flag set.
C12_Witness == branch = "pause" /\ gameOver /\ pause

(***************************************************************************)
(* C13.  In both variants, a tick received while running whose incremented *)
(* counter is still below move-speed adds 1 to the tick counter and        *)
(* changes nothing else: snake, direction, food, score, move-speed, status *)
(* and the input queue stay, and no queued direction is consumed.          *)
(***************************************************************************)
C13_WaitTick ==
    [][ (/\ Status = "Running"
         /\ tickCount + 1 < moveSpeed
         /\ branch' \in TickBranches) =>
            /\ tickCount' = tickCount + 1
            /\ UNCHANGED <<snake, direction, food, score, moveSpeed, dirChan,
                           lastDir, gameOver, pause>> ]_vars

\* A tick that only counted, one tick before the move, with directions
\* waiting in the queue.
C13_Witness ==
    /\ branch = "wait"
    /\ tickCount + 1 = moveSpeed
    /\ Len(dirChan) >= 2

(***************************************************************************)
(* C14.  In both variants, every tick applies completely or is completely  *)
(* inert: a qualifying tick that ends in a wall or self collision makes no *)
(* partial update, that is, apart from the status becoming GameOver it     *)
(* leaves snake, food, score, move-speed, direction, the input queue and   *)
(* the tick counter as they were before the tick.                          *)
(***************************************************************************)
C14_CollisionInert ==
    [][ (Qualifying /\ branch' \in TickBranches /\ gameOver') =>
            UNCHANGED <<snake, food, score, moveSpeed, direction, dirChan,
                        tickCount>> ]_vars

\* C14 as amended: a qualifying tick that ends in a collision has reset the
\* tick counter and has drained the queue and turned as any qualifying
\* tick does (the snake variant takes the first queued direction, the game
\* variant pops up to the direction it turns to); it leaves snake, food,
\* score, move-speed and the pause flag unchanged.
C14_CollisionTick ==
    [][ (Qualifying /\ branch' \in TickBranches /\ gameOver') =>
            /\ UNCHANGED <<snake, food, score, moveSpeed, pause>>
            /\ tickCount' = 0
            /\ \E k \in 0..Len(dirChan) :
                  /\ dirChan' = SubSeq(dirChan, k + 1, Len(dirChan))
                  /\ k = 0 => direction' = direction
                  /\ k > 0 => direction' \in {direction, dirChan[k]}
                  /\ (variant = "snake" /\ dirChan # << >>) =>
                         (k = 1 /\ direction' = dirChan[1])
            /\ (\/ ~InBoard(Ahead(variant, snake[1], direction'))
                \/ OnSnake(Ahead(variant, snake[1], direction'), snake)) ]_vars

\* A game ended by the move that took a direction from the queue and
\* turned with it.
C14_Witness ==
    /\ branch = "collided"
    /\ popped # << >>
    /\ direction = popped[Len(popped)]
    /\ tickCount = 0

C16_RestartAsFresh ==
    [][ /\ (variant = "game" /\ branch' = "restart") =>
              /\ lastDir' = 0
              /\ tickCount' = 0 /\ score' = 0 /\ moveSpeed' = 8
              /\ direction' = 4 /\ dirChan' = << >>
              /\ ~gameOver' /\ ~pause'
        /\ (variant = "game" /\ branch = "restart" /\ branch' \in KeyBranches) =>
              Len(dirChan') = 1 ]_vars

(***************************************************************************)
(* C17.  In the drain-time-filtering variant, the early rejection rejects  *)
(* a direction key exactly when it equals the most recently enqueued       *)
(* direction: lastDir is, in every reachable state, the direction of the   *)
(* latest successful enqueue.  So lastDir changes only when a key is       *)
(* enqueued, to that key's direction, a non-empty queue ends with lastDir, *)
(* and a key that differs from the latest enqueued direction is enqueued   *)
(* whenever the queue has room.                                            *)
(***************************************************************************)
C17_LastDirIsLatestEnqueue ==
    [][ variant = "game" =>
          /\ IF branch' = "enqueued"
             THEN lastDir' = dirChan'[Len(dirChan')]
             ELSE lastDir' = lastDir
          /\ dirChan' # << >> => lastDir' = dirChan'[Len(dirChan')]
          /\ (/\ branch' \in KeyBranches
              /\ dirChan # << >>
              /\ Len(dirChan) < 5
              /\ dirChan' = dirChan) => lastDir' = dirChan[Len(dirChan)] ]_vars

(***************************************************************************)
(* C18.  In both variants, in every reachable state move-speed equals      *)
(* max(3, initial - score div divisor), with initial 4 and divisor 4 in    *)
(* the snake variant and initial 8 and divisor 2 in the game variant; so   *)
(* within one game move-speed never increases, stays between 3 and its     *)
(* initial value, and only restart takes it back to the initial value.     *)
(***************************************************************************)
C18_Curve(v, sc) ==
    LET initial == IF v = "snake" THEN 4 ELSE 8
        divisor == IF v = "snake" THEN 4 ELSE 2
        linear  == initial - (sc \div divisor)
    IN  IF linear > 3 THEN linear ELSE 3

C18_SpeedCurve ==
    [][ /\ moveSpeed = C18_Curve(variant, score)
        /\ moveSpeed' = C18_Curve(variant, score')
        /\ moveSpeed' >= 3
        /\ moveSpeed' <= C18_Curve(variant, 0)
        /\ branch' # "restart" => moveSpeed' <= moveSpeed
        /\ moveSpeed' > moveSpeed => moveSpeed' = C18_Curve(variant, 0) ]_vars

\* An eating move with the linear term below 3: the floor holds the speed.
C18_Witness ==
    /\ branch = "ate"
    /\ moveSpeed = 3
    /\ (IF variant = "snake" THEN 4 - (score \div 4) ELSE 8 - (score \div 2)) < 3

(***************************************************************************)
(* C19.  In both variants, from Init on exactly one tick is pending at any *)
(* time: handling a tick, whether the game is running, paused or over,     *)
(* schedules exactly one next tick, and direction keys, pause, restart and *)
(* window resize schedule none.  The ticks neither stop nor multiply.      *)
(***************************************************************************)
C19_OneTickPending ==
    [][ /\ pending = 1
        /\ pending' = 1
        /\ (branch' \in TickBranches \/ pending' = pending) ]_vars

\* A tick handled by a game that is over and paused, in which a direction
\* key was pressed; the next tick is scheduled.
C19_Witness ==
    /\ branch = "idle"
    /\ gameOver
    /\ pause
    /\ keys > 0
    /\ pending = 1

(***************************************************************************)
(* C20.  In both variants, in every state between two events the tick      *)
(* counter is at least 0 and below move-speed, also right after an eating  *)
(* move lowered move-speed.  So a running game moves on exactly the tick   *)
(* that completes move-speed ticks since the move before, counting with    *)
(* the move-speed in force, and a lowered move-speed applies from the very *)
(* next move.                                                              *)
(***************************************************************************)
C20_TickCounter ==
    [][ /\ 0 <= tickCount /\ tickCount < moveSpeed
        /\ 0 <= tickCount' /\ tickCount' < moveSpeed'
        /\ (Status = "Running" /\ branch' \in TickBranches) =>
              /\ branch' \in MoveBranches <=> tickCount + 1 = moveSpeed
              /\ branch' \in MoveBranches => tickCount' = 0
              /\ branch' \notin MoveBranches => tickCount' = tickCount + 1
        /\ (branch' \notin TickBranches /\ branch' # "restart") =>
              UNCHANGED <<tickCount, moveSpeed>> ]_vars

\* A move made after an eating move lowered move-speed.
C20_Witness ==
    /\ branch = "moved"
    /\ tickCount = 0
    /\ moveSpeed < (IF variant = "snake" THEN 4 ELSE 8)

(***************************************************************************)
(* C21.  In both variants, in every reachable state, running, paused or    *)
(* over, every cell of the snake and the food cell are inside the board,   *)
(* 0 <= x < boardWidth and 0 <= y < boardHeight, so View's board[y][x] is  *)
(* always in range; a head that left the board is never stored in the      *)
(* snake.                                                                  *)
(***************************************************************************)
C21_InsideBoard ==
    /\ InBoard(food)
    /\ \A i \in 1..Len(snake) : InBoard(snake[i])

\* A snake that has eaten, with the food placed anew, stopped at a wall:
\* the cell ahead of the head is outside the board.
C21_Witness ==
    /\ gameOver
    /\ branch = "collided"
    /\ score > 0
    /\ ~InBoard(Ahead(variant, snake[1], direction))

====
